---- MODULE Spec2Model ----
(***************************************************************************)
(* MyDatabase (src/index.js): a promise-returning facade over one sqlite3  *)
(* connection.  The model keeps the facade's calls, the statements it has  *)
(* handed to the driver and not yet seen completed, the promise of the     *)
(* call in progress, and as much of the database (catalog, columns, rows)  *)
(* as the statements of the facade read and write.                         *)
(*                                                                         *)
(* SQL text is a sequence of tokens: the fragments of the template         *)
(* literals and the interpolated strings, in order.                        *)
(***************************************************************************)
EXTENDS Integers, Sequences, FiniteSets, TLC

VARIABLES ctor, catalog, cols, rows, pending, call, hist

vars == <<ctor, catalog, cols, rows, pending, call, hist>>

(* ------------------------------ bounds -------------------------------- *)
MaxCalls == 3
MaxBatch == 2
MaxTableRows == 2

(* --------------------------- input domains ---------------------------- *)
Undefined == "undefined"
FilePaths == {Undefined, "file.db"}
Names == {"users", "depts"}
ColumnDefs == {<<>>, <<"id", "name">>}
AlterColumns == {"name", "age"}
Values == {"A", "B", "30"}
Null == "NULL"
NoCond == Undefined
CondA == "WHERE name = \"A\""
Conditions == {NoCond, CondA}
RowA == << <<"name", "A">> >>
RowB == << <<"name", "B">> >>
RowA30 == << <<"name", "A">>, <<"age", "30">> >>
RowObjects == {RowA, RowB, RowA30}

SeqsUpTo(S, n) == UNION {[1..k -> S] : k \in 0..n}

(* ------------------------- static members ----------------------------- *)
\* static #ALTER_OPERATION
ALTER_OPERATION == <<"ADD", "DROP">>

AlterOperation == ALTER_OPERATION

\* MyDatabase.DATABASE_FILE_PATH: no public static of that name exists (the
\* private one is #DATABASE_FILE_PATH), so the property read yields undefined.
DATABASE_FILE_PATH == Undefined

Operations == {"ADD", "DROP", "MODIFY"}

(* ----------------------------- helpers -------------------------------- *)
Range(s) == {s[i] : i \in DOMAIN s}

\* Array.prototype.join: the elements separated by sep
RECURSIVE Join(_, _)
Join(s, sep) ==
    IF Len(s) = 0 THEN <<>>
    ELSE IF Len(s) = 1 THEN <<s[1]>>
    ELSE <<s[1], sep>> \o Join(Tail(s), sep)

\* Object.keys / Object.values of a row object (a sequence of key-value pairs)
Keys(row) == [i \in DOMAIN row |-> row[i][1]]

ObjectValues(row) == [i \in DOMAIN row |-> row[i][2]]

\* condition || ''
CondText(condition) == IF condition = Undefined THEN "" ELSE condition

NoErr == [wrapped |-> FALSE, kind |-> "none", idx |-> 0]

\* a promise: pending, then resolved with a value or rejected with a reason
NewPromise == [status |-> "pending", value |-> <<>>, reason |-> NoErr]

\* resolve(value) / reject(reason): a promise settles once, a second resolve
\* or reject is a no-op
Resolve(p, value) ==
    IF p.status = "pending" THEN [p EXCEPT !.status = "resolved", !.value = value] ELSE p

Reject(p, reason) ==
    IF p.status = "pending" THEN [p EXCEPT !.status = "rejected", !.reason = reason] ELSE p

(* --------------------------- SQL assembly ----------------------------- *)
CreateSql(tableName, columns) ==
    <<"CREATE TABLE IF NOT EXISTS", tableName, "(">> \o Join(columns, ", ") \o <<")">>

DropSql(tableName) == <<"DROP TABLE IF EXISTS", tableName>>

AlterSql(tableName, operation, columnDef) ==
    <<"ALTER TABLE", tableName, operation, "COLUMN", columnDef>>

\* mutant: the values written into the text instead of bound
InsertSqlInline(tableName, row) ==
    <<"INSERT INTO", tableName, "(">> \o Join(Keys(row), ", ") \o <<")", "VALUES", "(">>
        \o Join(ObjectValues(row), ", ") \o <<")">>

InsertSql(tableName, row) ==
    <<"INSERT INTO", tableName, "(">> \o Join(Keys(row), ", ") \o <<")", "VALUES", "(">>
        \o Join([i \in DOMAIN row |-> "?"], ", ") \o <<")">>

InsertParams(row) == ObjectValues(row)

\* one "key = ?" per key
RECURSIVE SetList(_)
SetList(keys) ==
    IF Len(keys) = 0 THEN <<>>
    ELSE IF Len(keys) = 1 THEN <<keys[1], "=", "?">>
    ELSE <<keys[1], "=", "?", ", ">> \o SetList(Tail(keys))

UpdateSql(tableName, row, condition) ==
    <<"UPDATE", tableName, "SET">> \o SetList(Keys(row)) \o <<CondText(condition)>>

UpdateParams(row) == ObjectValues(row)

DeleteSql(tableName, condition) == <<"DELETE FROM", tableName, CondText(condition)>>

SelectSql(tableName, condition) == <<"SELECT * FROM", tableName, CondText(condition)>>

CatalogSql == <<"SELECT * FROM sqlite_master WHERE type=\"table\"">>

TableInfoSql(tableName) == <<"PRAGMA table_info(", tableName, ");">>

ForeignKeysSql == <<"PRAGMA foreign_keys = ON;">>

(* ------------------------ statements in flight ------------------------ *)
\* A statement handed to the driver: who issued it, its position in the
\* issuing call, the text and bound parameters, and what the text says.
Stmt(owner, idx, kind, table, sql, params, row, cond, arg) ==
    [owner |-> owner, idx |-> idx, kind |-> kind, table |-> table, sql |-> sql,
     params |-> params, row |-> row, cond |-> cond, arg |-> arg]

\* the promise returned by the call in progress and the state of its
\* continuation
NewCall(op, table, args) ==
    [op |-> op, table |-> table, args |-> args, status |-> "pending",
     value |-> <<>>, reason |-> NoErr, errSeen |-> FALSE, firstFail |-> NoErr,
     issued |-> 0, n |-> 0, ok |-> {}, bad |-> {}, parts |-> <<>>, phase |-> "run",
     tp |-> NewPromise, tabs |-> <<>>, idx |-> 0, data |-> <<>>, selLog |-> <<>>,
     base |-> 0, uncaught |-> FALSE]

NoCall == [NewCall("none", "", <<>>) EXCEPT !.status = "idle", !.phase = "done"]

\* the error object a callback hands to reject: new Error(`${error}`) in the
\* run wrappers, the driver's error itself in the all wrappers
WrappedError(s) == [wrapped |-> TRUE, kind |-> s.kind, idx |-> s.idx]

RawError(s) == [wrapped |-> FALSE, kind |-> s.kind, idx |-> s.idx]

(* ------------------------------ engine -------------------------------- *)
NoRows == [t \in Names |-> <<>>]

Exists(t) == t \in Range(catalog)

Field(row, key) ==
    IF \E i \in DOMAIN row : row[i][1] = key
    THEN row[CHOOSE i \in DOMAIN row : row[i][1] = key][2]
    ELSE Null

\* rowid of an INTEGER PRIMARY KEY column left unset: largest rowid plus one
NextId(t) ==
    IF rows[t] = <<>> THEN 1
    ELSE 1 + CHOOSE m \in {rows[t][i].id : i \in DOMAIN rows[t]} :
                \A i \in DOMAIN rows[t] : rows[t][i].id <= m

\* the raw condition fragments the model draws from
Matches(r, cond) == CondText(cond) = "" \/ r.name = "A"

ColumnType(c) == IF c = "id" THEN "INTEGER" ELSE "TEXT"

\* does the engine refuse the statement in the present database?
Refused(s) ==
    CASE s.kind = "create" -> Len(s.arg) = 0
      [] s.kind = "drop" -> FALSE
      [] s.kind = "alter" ->
            \/ ~Exists(s.table)
            \/ s.arg[1] = "ADD" /\ s.arg[2] \in Range(cols[s.table])
            \/ s.arg[1] = "DROP" /\ s.arg[2] \notin Range(cols[s.table])
      [] s.kind \in {"insert", "update"} ->
            \/ ~Exists(s.table)
            \/ Len(s.row) = 0
            \/ \E i \in DOMAIN s.row : s.row[i][1] \notin Range(cols[s.table])
      [] s.kind \in {"delete", "select"} ->
            \/ ~Exists(s.table)
            \/ CondText(s.cond) # "" /\ "name" \notin Range(cols[s.table])
      [] OTHER -> FALSE

\* the rows a SELECT * FROM t <cond> returns
SelectResult(t, cond) == SelectSeq(rows[t], LAMBDA r : Matches(r, cond))

\* the rows PRAGMA table_info(t) returns: none for an unknown table
TableInfo(t) ==
    IF Exists(t)
    THEN [i \in DOMAIN cols[t] |->
            [cid |-> i - 1, name |-> cols[t][i], type |-> ColumnType(cols[t][i])]]
    ELSE <<>>

Rows(s) ==
    CASE s.kind = "select" -> SelectResult(s.table, s.cond)
      [] s.kind = "pragma" -> TableInfo(s.table)
      [] s.kind = "catalog" -> catalog
      [] OTHER -> <<>>

Without(seq, x) == SelectSeq(seq, LAMBDA y : y # x)

CatalogAfter(s) ==
    CASE s.kind = "create" /\ ~Exists(s.table) -> Append(catalog, s.table)
      [] s.kind = "drop" -> Without(catalog, s.table)
      [] OTHER -> catalog

ColsAfter(s) ==
    CASE s.kind = "create" /\ ~Exists(s.table) -> [cols EXCEPT ![s.table] = s.arg]
      [] s.kind = "drop" -> [cols EXCEPT ![s.table] = <<>>]
      [] s.kind = "alter" /\ s.arg[1] = "ADD" ->
            [cols EXCEPT ![s.table] = Append(@, s.arg[2])]
      [] s.kind = "alter" /\ s.arg[1] = "DROP" ->
            [cols EXCEPT ![s.table] = Without(@, s.arg[2])]
      [] OTHER -> cols

Updated(r, row) ==
    [id |-> r.id,
     name |-> IF "name" \in Range(Keys(row)) THEN Field(row, "name") ELSE r.name,
     age |-> IF "age" \in Range(Keys(row)) THEN Field(row, "age") ELSE r.age]

Cleared(r, c) ==
    [id |-> r.id,
     name |-> IF c = "name" THEN Null ELSE r.name,
     age |-> IF c = "age" THEN Null ELSE r.age]

RowsAfter(s) ==
    CASE s.kind = "drop" -> [rows EXCEPT ![s.table] = <<>>]
      [] s.kind = "alter" /\ s.arg[1] = "DROP" ->
            [rows EXCEPT ![s.table] = [i \in DOMAIN @ |-> Cleared(@[i], s.arg[2])]]
      [] s.kind = "insert" ->
            [rows EXCEPT ![s.table] =
                Append(@, [id |-> NextId(s.table), name |-> Field(s.row, "name"),
                           age |-> Field(s.row, "age")])]
      [] s.kind = "update" ->
            [rows EXCEPT ![s.table] =
                [i \in DOMAIN @ |-> IF Matches(@[i], s.cond) THEN Updated(@[i], s.row) ELSE @[i]]]
      [] s.kind = "delete" ->
            [rows EXCEPT ![s.table] = SelectSeq(@, LAMBDA r : ~Matches(r, s.cond))]
      [] OTHER -> rows

(* ------------------------------ facade -------------------------------- *)
Init ==
    /\ ctor = [state |-> "none", filePath |-> Undefined, openArg |-> Undefined, handles |-> 0]
    /\ catalog = <<>>
    /\ cols = NoRows
    /\ rows = NoRows
    /\ pending = {}
    /\ call = NoCall
    /\ hist = [calls |-> 0, createOk |-> 0, added |-> 0, removed |-> 0]

\* new MyDatabase(filePath): new Database(filePath || MyDatabase.DATABASE_FILE_PATH),
\* then the foreign-key pragma.  The driver takes a string file name and
\* throws on anything else.
Construct(filePath) ==
    /\ ctor.state = "none"
    /\ LET arg == IF filePath # Undefined THEN filePath ELSE DATABASE_FILE_PATH IN
       IF arg # Undefined
       THEN /\ ctor' = [state |-> "ok", filePath |-> filePath, openArg |-> arg, handles |-> 1]
            /\ pending' = {Stmt("ctor", 0, "fk", "", ForeignKeysSql, <<>>, <<>>, Undefined, <<>>)}
       ELSE /\ ctor' = [state |-> "thrown", filePath |-> filePath, openArg |-> arg,
                         handles |-> 0]
            /\ pending' = pending
    /\ UNCHANGED <<catalog, cols, rows, call, hist>>

\* the caller awaits each call: the next one starts when the promise of the
\* last has settled and no statement is outstanding
Ready ==
    /\ ctor.state = "ok"
    /\ call.status # "pending"
    /\ pending = {}
    /\ hist.calls < MaxCalls

Start(c, stmts) ==
    /\ call' = [c EXCEPT !.issued = Cardinality(stmts)]
    /\ pending' = pending \cup stmts
    /\ hist' = [hist EXCEPT !.calls = @ + 1]
    /\ UNCHANGED <<ctor, catalog, cols, rows>>

CreateTable(tableName, columns) ==
    /\ Ready
    /\ Start(NewCall("createTable", tableName, columns),
             {Stmt("call", 1, "create", tableName, CreateSql(tableName, columns),
                   <<>>, <<>>, Undefined, columns)})

DropTable(tableName) ==
    /\ Ready
    /\ Start(NewCall("dropTable", tableName, <<>>),
             {Stmt("call", 1, "drop", tableName, DropSql(tableName),
                   <<>>, <<>>, Undefined, <<>>)})

\* mutant: the invalid operation reported through a rejected promise
AlterTableRejecting(tableName, operation, columns) ==
    /\ Ready
    /\ LET allowedOperations == AlterOperation
           c == [NewCall("alterTable", tableName, <<operation, columns>>)
                    EXCEPT !.n = Len(columns), !.base = Len(cols[tableName])]
       IN  IF operation \notin Range(allowedOperations)
           THEN Start([c EXCEPT !.status = "rejected", !.phase = "done"], {})
           ELSE IF Len(columns) > 0
           THEN Start(c, {Stmt("call", i, "alter", tableName,
                               AlterSql(tableName, operation, columns[i]),
                               <<>>, <<>>, Undefined, <<operation, columns[i]>>)
                           : i \in DOMAIN columns})
           ELSE Start(Resolve([c EXCEPT !.phase = "done"], <<>>), {})

\* mutant: no check for an empty column list, one statement is built anyway
AlterTableNoEmptyCheck(tableName, operation, columns) ==
    /\ Ready
    /\ LET allowedOperations == AlterOperation
           c == [NewCall("alterTable", tableName, <<operation, columns>>)
                    EXCEPT !.n = Len(columns), !.base = Len(cols[tableName])]
           defs == IF Len(columns) > 0 THEN columns ELSE <<Undefined>>
       IN  IF operation \notin Range(allowedOperations)
           THEN Start([c EXCEPT !.status = "thrown", !.phase = "done"], {})
           ELSE Start([c EXCEPT !.n = Len(defs)],
                      {Stmt("call", i, "alter", tableName,
                            AlterSql(tableName, operation, defs[i]),
                            <<>>, <<>>, Undefined, <<operation, defs[i]>>)
                        : i \in DOMAIN defs})

AlterTable(tableName, operation, columns) ==
    /\ Ready
    /\ LET allowedOperations == AlterOperation
           c == [NewCall("alterTable", tableName, <<operation, columns>>)
                    EXCEPT !.n = Len(columns), !.base = Len(cols[tableName])]
       IN  IF operation \notin Range(allowedOperations)
           THEN Start([c EXCEPT !.status = "thrown", !.phase = "done"], {})
           ELSE IF Len(columns) > 0
           THEN Start(c, {Stmt("call", i, "alter", tableName,
                               AlterSql(tableName, operation, columns[i]),
                               <<>>, <<>>, Undefined, <<operation, columns[i]>>)
                           : i \in DOMAIN columns})
           ELSE Start(Resolve([c EXCEPT !.phase = "done"], <<>>), {})

InsertRows(tableName, rs) ==
    /\ Ready
    /\ Len(rows[tableName]) + Len(rs) <= MaxTableRows
    /\ LET c == [NewCall("insertRows", tableName, rs)
                    EXCEPT !.n = Len(rs), !.base = Len(rows[tableName])]
           stmts == {Stmt("call", i, "insert", tableName, InsertSql(tableName, rs[i]),
                          InsertParams(rs[i]), rs[i], Undefined, <<>>) : i \in DOMAIN rs}
       IN  IF Len(rs) = 0
           THEN Start(Resolve([c EXCEPT !.phase = "done"], <<>>), {})
           ELSE Start(c, stmts)

UpdateRow(tableName, row, condition) ==
    /\ Ready
    /\ Start(NewCall("updateRow", tableName, <<row, condition>>),
             {Stmt("call", 1, "update", tableName, UpdateSql(tableName, row, condition),
                   UpdateParams(row), row, condition, <<>>)})

DeleteRows(tableName, condition) ==
    /\ Ready
    /\ Start(NewCall("deleteRows", tableName, <<condition>>),
             {Stmt("call", 1, "delete", tableName, DeleteSql(tableName, condition),
                   <<>>, <<>>, condition, <<>>)})

SelectStmt(i, tableName, condition) ==
    Stmt("call", i, "select", tableName, SelectSql(tableName, condition),
         <<>>, <<>>, condition, <<>>)

SelectRows(tableName, condition) ==
    /\ Ready
    /\ Start(NewCall("selectRows", tableName, <<condition>>),
             {SelectStmt(1, tableName, condition)})

TableInfoStmt(i, tableName) ==
    Stmt("call", i, "pragma", tableName, TableInfoSql(tableName),
         <<>>, <<>>, Undefined, <<>>)

GetTableColumns(tableName) ==
    /\ Ready
    /\ Start(NewCall("getTableColumns", tableName, <<>>), {TableInfoStmt(1, tableName)})

CatalogStmt == Stmt("call", 0, "catalog", "", CatalogSql, <<>>, <<>>, Undefined, <<>>)

GetAllTables ==
    /\ Ready
    /\ Start([NewCall("getAllTables", "", <<>>) EXCEPT !.phase = "catalog"], {CatalogStmt})

GetAllData ==
    /\ Ready
    /\ Start([NewCall("getAllData", "", <<>>) EXCEPT !.phase = "catalog"], {CatalogStmt})

(* ----------------------------- callbacks ------------------------------ *)
\* Each callback yields the call's new state and the statements it issues.
Step(c, out) == [c |-> c, out |-> out]

\* an engine statement of the call completed with an error
Failed(c, s, error) ==
    [c EXCEPT !.errSeen = TRUE, !.bad = @ \cup {s.idx},
              !.firstFail = IF @ = NoErr THEN error ELSE @]

\* error => reject(new Error(`${error}`)), else resolve()
OnRun(c, s, fail) ==
    IF fail
    THEN Reject(Failed(c, s, WrappedError(s)), WrappedError(s))
    ELSE Resolve(c, <<>>)

\* error => reject(error), else resolve(rows)
OnAll(c, s, fail, result) ==
    IF fail
    THEN Reject(Failed(c, s, RawError(s)), RawError(s))
    ELSE Resolve(c, result)

\* columns.map(column => ({ name: column.name, type: column.type }))
MapColumns(columns) ==
    [i \in DOMAIN columns |-> [name |-> columns[i].name, type |-> columns[i].type]]

\* mutant: the aggregate waits for every sub-statement before it rejects
OnBatchSettled(c, s, fail) ==
    LET c1 == IF fail THEN Failed(c, s, WrappedError(s)) ELSE [c EXCEPT !.ok = @ \cup {s.idx}] IN
    IF c1.ok \cup c1.bad # 1..c1.n THEN c1
    ELSE IF c1.bad # {} THEN Reject([c1 EXCEPT !.phase = "done"], c1.firstFail)
    ELSE Resolve([c1 EXCEPT !.phase = "done"], <<>>)

\* one promise per sub-statement under Promise.all: the aggregate rejects
\* with the first rejection and resolves when every sub-promise has resolved
OnBatch(c, s, fail) ==
    IF fail
    THEN Reject(Failed(c, s, WrappedError(s)), WrappedError(s))
    ELSE LET c1 == [c EXCEPT !.ok = @ \cup {s.idx}] IN
         IF c1.ok = 1..c1.n THEN Resolve([c1 EXCEPT !.phase = "done"], <<>>) ELSE c1

\* the callback of the catalog query in getAllTables: on error reject(error)
\* and then tables.map on undefined throws inside the async callback; else
\* one getTableColumns per table, all issued at once
OnCatalog(c, s, fail, tables) ==
    IF fail
    THEN Step([Failed(c, s, RawError(s)) EXCEPT !.tp = Reject(@, RawError(s)),
                                            !.uncaught = TRUE, !.phase = "done"], {})
    ELSE IF Len(tables) = 0
    THEN Step([c EXCEPT !.tp = Resolve(@, <<>>), !.phase = "done"], {})
    ELSE Step([c EXCEPT !.tabs = tables, !.n = Len(tables),
                        !.parts = [i \in DOMAIN tables |-> <<>>],
                        !.phase = "columns", !.issued = @ + Len(tables)],
              {TableInfoStmt(i, tables[i]) : i \in DOMAIN tables})

\* mutant: the last table left out of the result
TablesResultShort(tabs, parts) ==
    [i \in 1..(Len(tabs) - 1) |-> [tableName |-> tabs[i], columns |-> parts[i]]]

\* the value getAllTables resolves with
TablesResult(tabs, parts) ==
    [i \in DOMAIN tabs |-> [tableName |-> tabs[i], columns |-> parts[i]]]

\* a getTableColumns of getAllTables settled: a rejection makes
\* await Promise.all(tablePromises) throw inside the async callback, whose
\* own promise nobody holds, so resolve is never reached
OnTableInfo(c, s, fail, columns) ==
    IF fail
    THEN Step([Failed(c, s, RawError(s)) EXCEPT !.uncaught = TRUE, !.phase = "failed"], {})
    ELSE LET c1 == [c EXCEPT !.ok = @ \cup {s.idx}, !.parts[s.idx] = MapColumns(columns)] IN
         IF c1.ok = 1..c1.n /\ c1.phase = "columns"
         THEN Step([c1 EXCEPT !.tp = Resolve(@, TablesResult(c1.tabs, c1.parts)),
                              !.phase = "done"], {})
         ELSE Step(c1, {})

\* return await new Promise(...): getAllTables settles as the inner promise
AdoptTables(st) ==
    IF st.c.tp.status = "resolved" THEN Step(Resolve(st.c, st.c.tp.value), st.out)
    ELSE IF st.c.tp.status = "rejected" THEN Step(Reject(st.c, st.c.tp.reason), st.out)
    ELSE st

\* mutant: one selectRows per table, all issued at once
StartLoopAtOnce(st) ==
    IF st.c.tp.status = "rejected" THEN Step(Reject(st.c, st.c.tp.reason), st.out)
    ELSE IF st.c.tp.status = "resolved"
    THEN LET tables == st.c.tp.value IN
         IF Len(tables) = 0 THEN Step(Resolve(st.c, <<>>), st.out)
         ELSE Step([st.c EXCEPT !.phase = "select", !.idx = Len(tables),
                                !.issued = @ + Len(tables),
                                !.selLog = [i \in DOMAIN tables |-> tables[i].tableName]],
                   st.out \cup {SelectStmt(i, tables[i].tableName, Undefined)
                                  : i \in DOMAIN tables})
    ELSE st

\* getAllData past await this.getAllTables(): a rejection rejects the
\* returned promise; otherwise the loop starts with the first table, or
\* resolves the empty mapping when there is none
StartLoop(st) ==
    IF st.c.tp.status = "rejected" THEN Step(Reject(st.c, st.c.tp.reason), st.out)
    ELSE IF st.c.tp.status = "resolved"
    THEN LET tables == st.c.tp.value IN
         IF Len(tables) = 0 THEN Step(Resolve(st.c, <<>>), st.out)
         ELSE Step([st.c EXCEPT !.phase = "select", !.idx = 1, !.issued = @ + 1,
                                !.selLog = <<tables[1].tableName>>],
                   st.out \cup {SelectStmt(1, tables[1].tableName, Undefined)})
    ELSE st

\* one turn of the loop in getAllData: .then stores the rows, .catch calls
\* reject(error); either way the loop goes on to the next table, and after
\* the last one resolve(allData) is called
OnSelectData(c, s, fail, result) ==
    LET tables == c.tp.value
        c1 == IF fail
              THEN Reject(Failed(c, s, RawError(s)), RawError(s))
              ELSE [c EXCEPT !.data = Append(@, <<s.table, result>>)]
    IN  IF c.idx < Len(tables)
        THEN Step([c1 EXCEPT !.idx = @ + 1, !.issued = @ + 1,
                             !.selLog = Append(@, tables[c.idx + 1].tableName)],
                  {SelectStmt(c.idx + 1, tables[c.idx + 1].tableName, Undefined)})
        ELSE Step(Resolve([c1 EXCEPT !.phase = "done"], c1.data), {})

Callback(c, s, fail, result) ==
    CASE c.op \in {"createTable", "dropTable", "updateRow", "deleteRows"} ->
            Step([OnRun(c, s, fail) EXCEPT !.phase = "done"], {})
      [] c.op = "selectRows" -> Step([OnAll(c, s, fail, result) EXCEPT !.phase = "done"], {})
      [] c.op = "getTableColumns" ->
            Step([OnAll(c, s, fail, IF fail THEN <<>> ELSE MapColumns(result))
                    EXCEPT !.phase = "done"], {})
      [] c.op \in {"insertRows", "alterTable"} -> Step(OnBatch(c, s, fail), {})
      [] c.op = "getAllTables" /\ s.kind = "catalog" -> AdoptTables(OnCatalog(c, s, fail, result))
      [] c.op = "getAllTables" /\ s.kind = "pragma" -> AdoptTables(OnTableInfo(c, s, fail, result))
      [] c.op = "getAllData" /\ s.kind = "catalog" -> StartLoop(OnCatalog(c, s, fail, result))
      [] c.op = "getAllData" /\ s.kind = "pragma" -> StartLoop(OnTableInfo(c, s, fail, result))
      [] c.op = "getAllData" /\ s.kind = "select" -> OnSelectData(c, s, fail, result)

\* The driver completes an outstanding statement, in any order, and calls
\* its callback.  A statement fails when the engine refuses it or when the
\* environment fails it (busy, I/O, full).  The callback of the constructor's
\* pragma only logs the error.
Complete(s, envFail) ==
    /\ s \in pending
    /\ LET fail == envFail \/ Refused(s)
           result == IF fail THEN <<>> ELSE Rows(s)
       IN  /\ catalog' = IF fail THEN catalog ELSE CatalogAfter(s)
           /\ cols' = IF fail THEN cols ELSE ColsAfter(s)
           /\ rows' = IF fail THEN rows ELSE RowsAfter(s)
           /\ IF s.owner = "ctor"
              THEN /\ pending' = pending \ {s}
                   /\ UNCHANGED <<ctor, call, hist>>
              ELSE LET st == Callback(call, s, fail, result) IN
                   /\ call' = st.c
                   /\ pending' = (pending \ {s}) \cup st.out
                   /\ hist' = [hist EXCEPT
                        !.createOk = IF s.kind = "create" /\ ~fail THEN @ + 1 ELSE @,
                        !.added = IF s.kind = "create" /\ ~fail /\ ~Exists(s.table)
                                  THEN @ + 1 ELSE @,
                        !.removed = IF s.kind = "drop" /\ ~fail /\ Exists(s.table)
                                    THEN @ + 1 ELSE @]
                   /\ UNCHANGED ctor

\* the driver's worker: any outstanding statement may be the next to complete
Engine == \E s \in pending, envFail \in BOOLEAN : Complete(s, envFail)

Next ==
    \/ \E filePath \in FilePaths : Construct(filePath)
    \/ \E t \in Names, columns \in ColumnDefs : CreateTable(t, columns)
    \/ \E t \in Names : DropTable(t)
    \/ \E t \in Names, operation \in Operations, columns \in SeqsUpTo(AlterColumns, MaxBatch) :
            AlterTable(t, operation, columns)
    \/ \E t \in Names, rs \in SeqsUpTo(RowObjects, MaxBatch) : InsertRows(t, rs)
    \/ \E t \in Names, row \in RowObjects, condition \in Conditions : UpdateRow(t, row, condition)
    \/ \E t \in Names, condition \in Conditions : DeleteRows(t, condition)
    \/ \E t \in Names, condition \in Conditions : SelectRows(t, condition)
    \/ \E t \in Names : GetTableColumns(t)
    \/ GetAllTables
    \/ GetAllData
    \/ Engine

Spec == Init /\ [][Next]_vars

(* ------------------------------ claims -------------------------------- *)
CallStmts == {s \in pending : s.owner = "call"}

Idxs(S) == {s.idx : s \in S}

ColumnNames == {"id", "name", "age"}

\* the words of a statement's text that are column names, in order
ColumnList(sql) == SelectSeq(sql, LAMBDA x : x \in ColumnNames)

Placeholders(sql) == SelectSeq(sql, LAMBDA x : x = "?")

\* a call has just been made
Called(op) == call'.op = op /\ hist'.calls = hist.calls + 1

DatabaseUnchanged == catalog' = catalog /\ cols' = cols /\ rows' = rows

\* C1: whenever an engine statement issued for a call has completed with an
\* error, the promise the call returned is rejected.
C1_EngineErrorRejects == call.errSeen => call.status = "rejected"

\* C1, apart from the per-table getTableColumns of getAllTables: holds.
C1_ExceptTableInfo ==
    (call.errSeen /\ call.firstFail.kind # "pragma") => call.status = "rejected"

\* C2: without a file path the facade opens the in-memory database, with a
\* file path the database at that path, and either way one handle is created.
C2_OpensRequestedDatabase ==
    ctor.state # "none" =>
        /\ ctor.handles = 1
        /\ ctor.openArg = IF ctor.filePath = Undefined THEN ":memory:" ELSE ctor.filePath

\* C3: alterTable with an operation outside AlterOperation throws at the
\* call, hands no statement to the engine and leaves the database as it was,
\* whatever the table name and the column list.
C3_InvalidOperationThrows ==
    [][(Called("alterTable") /\ call'.args[1] \notin Range(ALTER_OPERATION)) =>
          /\ call'.status = "thrown"
          /\ call'.issued = 0
          /\ pending' = pending
          /\ DatabaseUnchanged]_vars

C3_Witness ==
    /\ call.op = "alterTable"
    /\ call.args = <<"MODIFY", <<"age">>>>
    /\ Exists(call.table)
    /\ call.status = "thrown"

\* the row object statement s was built from
RowOf(s) == IF call.op = "insertRows" THEN call.args[s.idx] ELSE call.args[1]

\* C4: insertRows and updateRow hand one statement per row to the engine;
\* its column list is the row's keys in order, it has one placeholder per
\* key, its bound parameters are the row's values in order, and no value of
\* the row occurs in its text.
C4_ValuesAreBound ==
    /\ call.op = "insertRows" => call.issued = Len(call.args)
    /\ call.op = "updateRow" => call.issued = 1
    /\ \A s \in CallStmts :
         s.kind \in {"insert", "update"} =>
            /\ ColumnList(s.sql) = Keys(RowOf(s))
            /\ Len(Placeholders(s.sql)) = Len(Keys(RowOf(s)))
            /\ s.params = ObjectValues(RowOf(s))
            /\ \A i \in DOMAIN s.sql : s.sql[i] \notin Values

C4_Witness ==
    /\ call.op = "insertRows"
    /\ call.args = <<RowA30, RowB>>
    /\ Idxs(CallStmts) = {1, 2}

\* a batch call that passed validation
Batch == call.op \in {"insertRows", "alterTable"} /\ call.status # "thrown"

BatchEffect ==
    IF call.op = "insertRows" THEN Len(rows[call.table]) - call.base
    ELSE IF call.args[1] = "ADD" THEN Len(cols[call.table]) - call.base
    ELSE call.base - Len(cols[call.table])

\* C5: insertRows and alterTable hand all n sub-statements to the engine at
\* the call (each is from then on outstanding or completed, and no other
\* statement is ever issued); the aggregate is resolved exactly when all n
\* have succeeded, and rejected, with the first failure, exactly when one has
\* failed, whatever is still outstanding; and the database holds the effect
\* of exactly the sub-statements that succeeded.
C5_JoinedBatchNotAtomic ==
    Batch =>
        /\ call.issued = call.n
        /\ Idxs(CallStmts) \cup call.ok \cup call.bad = 1..call.n
        /\ Idxs(CallStmts) \cap (call.ok \cup call.bad) = {}
        /\ call.ok \cap call.bad = {}
        /\ call.status = "resolved" <=> call.ok = 1..call.n
        /\ call.status = "rejected" <=> call.bad # {}
        /\ call.status = "rejected" => call.reason = call.firstFail
        /\ BatchEffect = Cardinality(call.ok)

C5_Witness ==
    /\ call.op = "insertRows"
    /\ call.status = "rejected"
    /\ call.ok # {}
    /\ Len(rows[call.table]) = call.base + 1

\* rejected while a sub-statement is still outstanding
C5_RejectedEarly == Batch /\ call.status = "rejected" /\ CallStmts # {}

\* C6: on the empty table users(id, name), once insertRows('users',
\* {name:'A'}, {name:'B'}) has resolved, SELECT * FROM users gives two rows,
\* A with id 1 and B with id 2.
C6_IdsFollowArgumentOrder ==
    (/\ call.op = "insertRows"
     /\ call.table = "users"
     /\ call.args = <<RowA, RowB>>
     /\ call.base = 0
     /\ cols["users"] = <<"id", "name">>
     /\ call.status = "resolved") =>
        LET got == SelectResult("users", NoCond) IN
        /\ Len(got) = 2
        /\ {<<got[i].id, got[i].name>> : i \in DOMAIN got} = {<<1, "A">>, <<2, "B">>}

\* C6 without the order: the two rows have ids 1 and 2 and names A and B.
C6_TwoRows ==
    (/\ call.op = "insertRows"
     /\ call.table = "users"
     /\ call.args = <<RowA, RowB>>
     /\ call.base = 0
     /\ cols["users"] = <<"id", "name">>
     /\ call.status = "resolved") =>
        LET got == SelectResult("users", NoCond) IN
        /\ Len(got) = 2
        /\ {got[i].id : i \in DOMAIN got} = {1, 2}
        /\ {got[i].name : i \in DOMAIN got} = {"A", "B"}

\* C7 as stated, counting the createTable calls that resolved: getAllTables
\* returns as many entries as createTable calls were made, less the tables
\* dropped.
C7_CountIsCallsMinusDrops ==
    (call.op = "getAllTables" /\ call.status = "resolved") =>
        Len(call.value) = hist.createOk - hist.removed

\* C7 amended: getAllTables returns as many entries as createTable calls
\* added a table (the name was not in the catalog), less the dropTable calls
\* that removed one.
C7_CountIsAddedMinusRemoved ==
    (call.op = "getAllTables" /\ call.status = "resolved") =>
        Len(call.value) = hist.added - hist.removed

C7_Witness ==
    /\ call.op = "getAllTables"
    /\ call.status = "resolved"
    /\ hist.createOk = 2
    /\ hist.added = 1
    /\ Len(call.value) = 1

Selects == {s \in CallStmts : s.kind = "select"}

\* C9: getAllData issues no SELECT before getAllTables has resolved, then
\* one SELECT per table in the order getAllTables gave, the next only after
\* the one before has completed, and resolves with one key per table.
C9_SequentialFetch ==
    call.op = "getAllData" =>
        /\ call.tp.status # "resolved" => (Selects = {} /\ call.selLog = <<>>)
        /\ Cardinality(Selects) <= 1
        /\ call.tp.status = "resolved" =>
              /\ Len(call.selLog) <= Len(call.tp.value)
              /\ \A i \in DOMAIN call.selLog : call.selLog[i] = call.tp.value[i].tableName
              /\ \A s \in Selects : s.idx = Len(call.selLog) /\ s.table = call.selLog[s.idx]
              /\ Len(call.data) + Cardinality(call.bad) + Cardinality(Selects) = Len(call.selLog)
        /\ call.status = "resolved" =>
              /\ call.tp.status = "resolved"
              /\ call.value = call.data
              /\ Len(call.data) = Len(call.tp.value)
              /\ \A i \in DOMAIN call.data : call.data[i][1] = call.tp.value[i].tableName
              /\ [i \in DOMAIN call.data |-> call.data[i][1]] = catalog

C9_Witness ==
    /\ call.op = "getAllData"
    /\ call.status = "resolved"
    /\ call.issued = 5
    /\ [i \in DOMAIN call.data |-> call.data[i][1]] = <<"depts", "users">>

\* C10: once a SELECT of getAllData has failed, the promise is rejected with
\* the first such error, and no further SELECT is issued.
C10_StopsAtFirstFailure ==
    (call.op = "getAllData" /\ call.firstFail.kind = "select") =>
        /\ call.status = "rejected"
        /\ call.reason = call.firstFail
        /\ Selects = {}

\* C10 without its last part: rejected with the first failing SELECT's error,
\* never resolved with a partial mapping.
C10_RejectedOnce ==
    (call.op = "getAllData" /\ call.firstFail.kind = "select") =>
        /\ call.status = "rejected"
        /\ call.reason = call.firstFail

====
